---- MODULE Spec2Model ----
(***************************************************************************)
(* A model of toga's Slider (with the IntSliderImpl integer-range backend  *)
(* base class) and DateInput widgets.                                      *)
(*                                                                         *)
(* Numbers.  A Python float x is represented by the integer x * Scale, and *)
(* float arithmetic is modelled as exact real arithmetic: every quotient   *)
(* the code forms is, for the inputs enumerated here, an exact multiple of *)
(* 1/Scale.  round() is Python's round-half-to-even.  Floating rounding    *)
(* error is outside the model.                                             *)
(* Dates.  A datetime.date is represented by its proleptic Gregorian       *)
(* ordinal (date.toordinal()).                                             *)
(* Optional values.  None is the empty tuple and a present value x is the  *)
(* one-element tuple <<x>>.                                                *)
(***************************************************************************)
EXTENDS Integers, Sequences, FiniteSets, TLC

VARIABLES widget, phase, slider, date_input, last

vars == <<widget, phase, slider, date_input, last>>

(***************************************************************************)
(* Bounds of the model and program constants.                              *)
(***************************************************************************)
\* min and max inputs of the Slider are the whole numbers 0..MaxBound.
MaxBound == 2
\* tick_count inputs are 1..MaxTicks (1 is the rejected count) and None.
MaxTicks == 3

CONTINUOUS_MAX == 10000

\* One unit (1.0) in the fixed-point representation of floats.
Scale == 3 * CONTINUOUS_MAX

None == <<>>
Some(x) == <<x>>

Max2(a, b) == IF a < b THEN b ELSE a
Min2(a, b) == IF a < b THEN a ELSE b

\* Python's round() of the real number num / den (den > 0): to the nearest
\* integer, a tie going to the even one.
Round(num, den) ==
  LET q == num \div den
      r == num % den
  IN  IF 2 * r < den THEN q
      ELSE IF 2 * r > den THEN q + 1
      ELSE IF q % 2 = 0 THEN q ELSE q + 1

(***************************************************************************)
(* Slider: the record holds the IntSliderImpl cache (value, min, max,      *)
(* discrete), the native control (int_value, int_max, ticks_visible), the  *)
(* installed change handler Slider._on_change ("noop" is wrapped_handler   *)
(* of None, "user" the wrapped user handler), and calls, the number of     *)
(* times the user's handler has run during the current operation.          *)
(* Three more fields observe the run of the current operation: depth, the  *)
(* number of programmatic-change scopes that are open; log, one entry      *)
(* <<handler, depth, min, value, max>> for every call of an installed      *)
(* handler, with what the widget showed at the call; and crossed, which    *)
(* becomes TRUE when a backend call leaves the backend with min > max.     *)
(***************************************************************************)

\* Calling the installed handler.
CallHandler(S, h) ==
  [S EXCEPT !.calls = IF h = "user" THEN @ + 1 ELSE @,
            !.log = Append(@, <<h, S.depth, S.min, S.value, S.max>>)]

\* Slider.on_change setter.
Slider_set_on_change(S, h) == [S EXCEPT !.on_change = h]

\* IntSliderImpl.on_change: the native change callback.
IntSliderImpl_on_change(S) ==
  LET span == S.max - S.min
      S1 == [S EXCEPT !.value = S.min + (S.int_value * span) \div S.int_max]
  IN  CallHandler(S1, S1.on_change)

\* The native control's set_int_value: stores the position; ev says whether
\* this backend fires its change event for a programmatic change.
set_int_value(S, pos, ev) ==
  LET S1 == [S EXCEPT !.int_value = pos]
  IN  IF ev THEN IntSliderImpl_on_change(S1) ELSE S1

\* The native control's set_int_max: stores the maximum; clip says whether
\* the control pulls its position into the new range, ev whether it fires
\* its change event.
set_int_max(S, m, clip, ev) ==
  LET S1 == [S EXCEPT !.int_max = m,
                      !.int_value = IF clip THEN Min2(@, m) ELSE @]
  IN  IF ev THEN IntSliderImpl_on_change(S1) ELSE S1

set_ticks_visible(S, visible) == [S EXCEPT !.ticks_visible = visible]

IntSliderImpl_get_value(S) == S.value

\* IntSliderImpl.set_value caching the value before it moves the native
\* control.
IntSliderImpl_set_value_cache_first(S, v, ev) ==
  LET span == S.max - S.min
      pos == IF span = 0 THEN 0 ELSE Round((v - S.min) * S.int_max, span)
  IN  set_int_value([S EXCEPT !.value = v], pos, ev)

IntSliderImpl_set_value(S, v, ev) ==
  LET span == S.max - S.min
      pos == IF span = 0 THEN 0 ELSE Round((v - S.min) * S.int_max, span)
      S1 == set_int_value(S, pos, ev)
  IN  [S1 EXCEPT !.value = v]

IntSliderImpl_set_min(S, v) ==
  [S EXCEPT !.min = v, !.crossed = @ \/ v > S.max]

IntSliderImpl_set_max(S, v) ==
  [S EXCEPT !.max = v, !.crossed = @ \/ S.min > v]

IntSliderImpl_get_tick_count(S) ==
  IF S.discrete THEN Some(S.int_max + 1) ELSE None

IntSliderImpl_set_tick_count(S, tick_count, clip, ev) ==
  LET S1 == IF tick_count = None
            THEN set_int_max([S EXCEPT !.discrete = FALSE],
                             CONTINUOUS_MAX, clip, ev)
            ELSE set_int_max([S EXCEPT !.discrete = TRUE],
                             tick_count[1] - 1, clip, ev)
  IN  set_ticks_visible(S1, S1.discrete)

\* Slider.tick_step (None, or the step as a one-element tuple).
tick_step(S) ==
  IF IntSliderImpl_get_tick_count(S) = None \/ S.max = S.min
  THEN None
  ELSE Some((S.max - S.min) \div (IntSliderImpl_get_tick_count(S)[1] - 1))

\* Slider.tick_value getter.
tick_value(S) ==
  IF IntSliderImpl_get_tick_count(S) # None /\ tick_step(S) # None
  THEN Some(Round(IntSliderImpl_get_value(S) - S.min, tick_step(S)[1]) + 1)
  ELSE None

\* Slider._round_value truncating to the tick below instead of rounding.
round_value_floor(S, v) ==
  LET step == tick_step(S)
  IN  IF step # None
      THEN S.min + ((v - S.min) \div step[1]) * step[1]
      ELSE v

\* Slider._round_value.
round_value(S, v) ==
  LET step == tick_step(S)
  IN  IF step # None
      THEN S.min + Round(v - S.min, step[1]) * step[1]
      ELSE v

\* Slider._programmatic_change leaving the user's handler installed.
programmatic_change_enter_not_muted(S) == [S EXCEPT !.depth = @ + 1]

\* Slider._programmatic_change up to the yield: the handler is replaced by
\* the no-op one (the caller keeps old_value and the saved handler).
programmatic_change_enter(S) ==
  Slider_set_on_change([S EXCEPT !.depth = @ + 1], "noop")

\* Slider._programmatic_change left by an exception raised in its body:
\* the generator ends at the yield.
programmatic_change_raise(S) == [S EXCEPT !.depth = @ - 1]

\* Slider._programmatic_change calling the handler whether or not the value
\* has changed.
programmatic_change_exit_always_fires(S, old_value, on_change) ==
  CallHandler([S EXCEPT !.on_change = on_change, !.depth = @ - 1], on_change)

\* Slider._programmatic_change after the yield.
programmatic_change_exit(S, old_value, on_change) ==
  LET S1 == [S EXCEPT !.on_change = on_change, !.depth = @ - 1]
  IN  IF IntSliderImpl_get_value(S1) # old_value
      THEN CallHandler(S1, on_change)
      ELSE S1

\* Slider._set_value passing the value on without rounding it to a tick.
Slider_set_value_raw_unrounded(S, v, ev) ==
  IntSliderImpl_set_value(S, v, ev)

\* Slider._set_value (float() of a number is the number).
Slider_set_value_raw(S, v, ev) ==
  IntSliderImpl_set_value(S, round_value(S, v), ev)

\* Slider.value setter without the clipping to [min, max].
Slider_set_value_unclipped(S, v, ev) ==
  LET old_value == IntSliderImpl_get_value(S)
      on_change == S.on_change
      S1 == programmatic_change_enter(S)
      S2 == Slider_set_value_raw(S1, v, ev)
  IN  programmatic_change_exit(S2, old_value, on_change)

\* Slider.value setter.
Slider_set_value(S, v, ev) ==
  LET c == IF v < S.min THEN S.min
           ELSE IF v > S.max THEN S.max
           ELSE v
      old_value == IntSliderImpl_get_value(S)
      on_change == S.on_change
      S1 == programmatic_change_enter(S)
      S2 == Slider_set_value_raw(S1, c, ev)
  IN  programmatic_change_exit(S2, old_value, on_change)

\* float(value) raises for an argument that is not a number (None here).
CanFloat(x) == x # None
Float(x) == x[1]

\* Slider.min setter that clips the new min to the current max instead of
\* raising the max.
Slider_set_min_clipped(S, x, ev) ==
  LET old_value == IntSliderImpl_get_value(S)
      on_change == S.on_change
      S1 == programmatic_change_enter(S)
  IN  IF ~CanFloat(x) THEN programmatic_change_raise(S1)
      ELSE
        LET min_ == Min2(Float(x), S1.max)
            S3 == IntSliderImpl_set_min(S1, min_)
            S4 == Slider_set_value_raw(S3, Max2(min_, Min2(S1.max, old_value)), ev)
        IN  programmatic_change_exit(S4, old_value, on_change)

\* Slider.min setter pushing the new min before it raises the max.
Slider_set_min_min_first(S, x, ev) ==
  LET old_value == IntSliderImpl_get_value(S)
      on_change == S.on_change
      S1 == programmatic_change_enter(S)
  IN  IF ~CanFloat(x) THEN programmatic_change_raise(S1)
      ELSE
        LET min_ == Float(x)
            drag == S1.max < min_
            max_ == IF drag THEN min_ ELSE S1.max
            S2 == IntSliderImpl_set_min(S1, min_)
            S3 == IF drag THEN IntSliderImpl_set_max(S2, max_) ELSE S2
            S4 == Slider_set_value_raw(S3, Max2(min_, Min2(max_, old_value)), ev)
        IN  programmatic_change_exit(S4, old_value, on_change)

\* Slider.min setter.  When float(value) raises, the exception leaves the
\* scope at the yield and the lines after it do not run.
Slider_set_min(S, x, ev) ==
  LET old_value == IntSliderImpl_get_value(S)
      on_change == S.on_change
      S1 == programmatic_change_enter(S)
  IN  IF ~CanFloat(x) THEN programmatic_change_raise(S1)
      ELSE
        LET min_ == Float(x)
            drag == S1.max < min_
            max_ == IF drag THEN min_ ELSE S1.max
            S2 == IF drag THEN IntSliderImpl_set_max(S1, max_) ELSE S1
            S3 == IntSliderImpl_set_min(S2, min_)
            S4 == Slider_set_value_raw(S3, Max2(min_, Min2(max_, old_value)), ev)
        IN  programmatic_change_exit(S4, old_value, on_change)

\* Slider.max setter that does not assign the value again.
Slider_set_max_no_refresh(S, x, ev) ==
  LET old_value == IntSliderImpl_get_value(S)
      on_change == S.on_change
      S1 == programmatic_change_enter(S)
  IN  IF ~CanFloat(x) THEN programmatic_change_raise(S1)
      ELSE
        LET max_ == Float(x)
            drag == S1.min > max_
            min_ == IF drag THEN max_ ELSE S1.min
            S2 == IF drag THEN IntSliderImpl_set_min(S1, min_) ELSE S1
            S3 == IntSliderImpl_set_max(S2, max_)
        IN  programmatic_change_exit(S3, old_value, on_change)

\* Slider.max setter.
Slider_set_max(S, x, ev) ==
  LET old_value == IntSliderImpl_get_value(S)
      on_change == S.on_change
      S1 == programmatic_change_enter(S)
  IN  IF ~CanFloat(x) THEN programmatic_change_raise(S1)
      ELSE
        LET max_ == Float(x)
            drag == S1.min > max_
            min_ == IF drag THEN max_ ELSE S1.min
            S2 == IF drag THEN IntSliderImpl_set_min(S1, min_) ELSE S1
            S3 == IntSliderImpl_set_max(S2, max_)
            S4 == Slider_set_value_raw(S3, Max2(min_, Min2(max_, old_value)), ev)
        IN  programmatic_change_exit(S4, old_value, on_change)

\* Slider.tick_count setter raises ValueError before anything else.
tick_count_rejected(tick_count) == tick_count # None /\ tick_count[1] < 2

\* Slider.tick_count setter that does not assign the old value again.
Slider_set_tick_count_no_refresh(S, tick_count, clip, ev1, ev2) ==
  LET old_value == IntSliderImpl_get_value(S)
      on_change == S.on_change
      S1 == programmatic_change_enter(S)
      S2 == IntSliderImpl_set_tick_count(S1, tick_count, clip, ev1)
  IN  programmatic_change_exit(S2, old_value, on_change)

\* Slider.tick_count setter (for an accepted count).
Slider_set_tick_count(S, tick_count, clip, ev1, ev2) ==
  LET old_value == IntSliderImpl_get_value(S)
      on_change == S.on_change
      S1 == programmatic_change_enter(S)
      S2 == IntSliderImpl_set_tick_count(S1, tick_count, clip, ev1)
      S3 == Slider_set_value(S2, old_value, ev2)
  IN  programmatic_change_exit(S3, old_value, on_change)

\* Slider.tick_count setter making its range check inside the scope.
Slider_tick_count_checked_late(S, tick_count, clip, ev1, ev2) ==
  IF tick_count_rejected(tick_count)
  THEN [w |-> programmatic_change_raise(programmatic_change_enter(S)),
        err |-> "ValueError"]
  ELSE [w |-> Slider_set_tick_count(S, tick_count, clip, ev1, ev2), err |-> ""]

\* Slider.tick_count setter, whole: the widget after the call and the
\* exception raised ("" when it returned).
Slider_tick_count(S, tick_count, clip, ev1, ev2) ==
  IF tick_count_rejected(tick_count)
  THEN [w |-> S, err |-> "ValueError"]
  ELSE [w |-> Slider_set_tick_count(S, tick_count, clip, ev1, ev2), err |-> ""]

\* Slider.tick_value setter raises ValueError.
tick_value_rejected(S, t) ==
  IF IntSliderImpl_get_tick_count(S) = None
  THEN t # None
  ELSE t = None \/ tick_step(S) = None

\* Slider.tick_value setter counting ticks from 0 instead of 1.
Slider_set_tick_value_from_zero(S, t, ev) ==
  IF IntSliderImpl_get_tick_count(S) = None
  THEN S
  ELSE Slider_set_value(S, S.min + t[1] * tick_step(S)[1], ev)

\* Slider.tick_value setter (for an accepted argument).
Slider_set_tick_value(S, t, ev) ==
  IF IntSliderImpl_get_tick_count(S) = None
  THEN S
  ELSE Slider_set_value(S, S.min + (t[1] - 1) * tick_step(S)[1], ev)

\* IntSliderImpl.__init__ and the native control as created.
NewSlider(native_max) ==
  [value |-> 0, min |-> 0, max |-> Scale, discrete |-> FALSE,
   int_value |-> 0, int_max |-> native_max, ticks_visible |-> FALSE,
   on_change |-> "noop", calls |-> 0,
   depth |-> 0, log |-> <<>>, crossed |-> FALSE]


\* Slider.__init__ installing the user's handler before the initial values.
Slider_init_handler_first(S, min_, max_, tick_count, value, handler, clip, e) ==
  LET S0 == Slider_set_on_change(S, handler)
      S1 == Slider_set_min(S0, Some(min_), e[1])
      S2 == Slider_set_max(S1, Some(max_), e[2])
      S3 == Slider_set_tick_count(S2, tick_count, clip, e[3], e[4])
      v == IF value = None THEN (min_ + max_) \div 2 ELSE value[1]
  IN  Slider_set_value(S3, v, e[5])

\* Slider.__init__ for numeric min and max and an accepted tick_count; e is
\* the native control's choice of firing its change event in each of the
\* five backend calls, clip as in set_int_max.
Slider_init(S, min_, max_, tick_count, value, handler, clip, e) ==
  LET S0 == Slider_set_on_change(S, "noop")
      S1 == Slider_set_min(S0, Some(min_), e[1])
      S2 == Slider_set_max(S1, Some(max_), e[2])
      S3 == Slider_set_tick_count(S2, tick_count, clip, e[3], e[4])
      v == IF value = None THEN (min_ + max_) \div 2 ELSE value[1]
      S4 == Slider_set_value(S3, v, e[5])
  IN  Slider_set_on_change(S4, handler)

(***************************************************************************)
(* DateInput: the record holds what the backend stores (value, min, max),  *)
(* the installed change handler and calls, log, depth (always 0: it has no *)
(* programmatic-change scope) and crossed as for the Slider.  An argument  *)
(* of a setter is a record: kind "None", "date" (d its ordinal),           *)
(* "datetime" (d the ordinal of its date, t its time of day), "str" (d the *)
(* ordinal of the date its ISO text denotes), "badstr" (text that is no    *)
(* ISO date) or "other" (any other object).                                *)
(***************************************************************************)
MIN_DATE == 657072
MAX_DATE == 3286817

\* DateInput._convert_date checking the window whatever check_range says.
convert_date_always_checked(x, check_range, today) ==
  LET r == CASE x.kind = "None" -> [err |-> "", d |-> today]
             [] x.kind = "datetime" -> [err |-> "", d |-> x.d]
             [] x.kind = "date" -> [err |-> "", d |-> x.d]
             [] x.kind = "str" -> [err |-> "", d |-> x.d]
             [] x.kind = "badstr" -> [err |-> "ValueError", d |-> 0]
             [] OTHER -> [err |-> "TypeError", d |-> 0]
  IN  IF r.err = "" /\ (r.d < MIN_DATE \/ r.d > MAX_DATE)
      THEN [err |-> "ValueError", d |-> r.d]
      ELSE r

\* DateInput._convert_date: the date, or the exception raised.
convert_date(x, check_range, today) ==
  LET r == CASE x.kind = "None" -> [err |-> "", d |-> today]
             [] x.kind = "datetime" -> [err |-> "", d |-> x.d]
             [] x.kind = "date" -> [err |-> "", d |-> x.d]
             [] x.kind = "str" -> [err |-> "", d |-> x.d]
             [] x.kind = "badstr" -> [err |-> "ValueError", d |-> 0]
             [] OTHER -> [err |-> "TypeError", d |-> 0]
  IN  IF r.err = "" /\ check_range /\ (r.d < MIN_DATE \/ r.d > MAX_DATE)
      THEN [err |-> "ValueError", d |-> r.d]
      ELSE r

\* The backend's set_value: stores the date; ev says whether the backend
\* reports the change to the interface's on_change.
DateInput_impl_set_value(D, v, ev) ==
  LET D1 == [D EXCEPT !.value = v]
  IN  IF ev THEN CallHandler(D1, D1.on_change) ELSE D1

\* The backend's set_min_date and set_max_date.
DateInput_impl_set_min_date(D, v) ==
  [D EXCEPT !.min = v, !.crossed = @ \/ v > D.max]

DateInput_impl_set_max_date(D, v) ==
  [D EXCEPT !.max = v, !.crossed = @ \/ D.min > v]

\* DateInput.value setter storing the converted date without clipping it.
DateInput_set_value_unclipped(D, x, today, ev) ==
  LET c == convert_date(x, FALSE, today)
  IN  IF c.err # "" THEN [w |-> D, err |-> c.err]
      ELSE [w |-> DateInput_impl_set_value(D, c.d, ev), err |-> ""]

\* DateInput.value setter: the widget after the call and the error raised.
DateInput_set_value(D, x, today, ev) ==
  LET c == convert_date(x, FALSE, today)
      v == IF c.d < D.min THEN D.min
           ELSE IF c.d > D.max THEN D.max
           ELSE c.d
  IN  IF c.err # "" THEN [w |-> D, err |-> c.err]
      ELSE [w |-> DateInput_impl_set_value(D, v, ev), err |-> ""]

DateArg(d) == [kind |-> "date", d |-> d, t |-> 0]

\* DateInput.min setter converting its argument without the window check.
DateInput_set_min_unchecked(D, x, today, ev) ==
  LET c == IF x.kind = "None" THEN [err |-> "", d |-> MIN_DATE]
           ELSE convert_date(x, FALSE, today)
      min_ == c.d
      D1 == IF D.max < min_ THEN DateInput_impl_set_max_date(D, min_) ELSE D
      D2 == DateInput_impl_set_min_date(D1, min_)
  IN  IF c.err # "" THEN [w |-> D, err |-> c.err]
      ELSE IF D2.value < min_
      THEN DateInput_set_value(D2, DateArg(min_), today, ev)
      ELSE [w |-> D2, err |-> ""]

\* DateInput.min setter.
DateInput_set_min(D, x, today, ev) ==
  LET c == IF x.kind = "None" THEN [err |-> "", d |-> MIN_DATE]
           ELSE convert_date(x, TRUE, today)
      min_ == c.d
      D1 == IF D.max < min_ THEN DateInput_impl_set_max_date(D, min_) ELSE D
      D2 == DateInput_impl_set_min_date(D1, min_)
  IN  IF c.err # "" THEN [w |-> D, err |-> c.err]
      ELSE IF D2.value < min_
      THEN DateInput_set_value(D2, DateArg(min_), today, ev)
      ELSE [w |-> D2, err |-> ""]

\* DateInput.max setter that leaves a min above the new max where it is.
DateInput_set_max_no_drag(D, x, today, ev) ==
  LET c == IF x.kind = "None" THEN [err |-> "", d |-> MAX_DATE]
           ELSE convert_date(x, TRUE, today)
      max_ == c.d
      D2 == DateInput_impl_set_max_date(D, max_)
  IN  IF c.err # "" THEN [w |-> D, err |-> c.err]
      ELSE IF D2.value > max_
      THEN DateInput_set_value(D2, DateArg(max_), today, ev)
      ELSE [w |-> D2, err |-> ""]

\* DateInput.max setter.
DateInput_set_max(D, x, today, ev) ==
  LET c == IF x.kind = "None" THEN [err |-> "", d |-> MAX_DATE]
           ELSE convert_date(x, TRUE, today)
      max_ == c.d
      D1 == IF D.min > max_ THEN DateInput_impl_set_min_date(D, max_) ELSE D
      D2 == DateInput_impl_set_max_date(D1, max_)
  IN  IF c.err # "" THEN [w |-> D, err |-> c.err]
      ELSE IF D2.value > max_
      THEN DateInput_set_value(D2, DateArg(max_), today, ev)
      ELSE [w |-> D2, err |-> ""]

\* DateInput.on_change setter.
DateInput_set_on_change(D, h) == [D EXCEPT !.on_change = h]

\* DateInput.__init__: the widget after each step that ran, and the error
\* that ended construction, if any.
DateInput_init(D, value, min_, max_, handler, today, e) ==
  LET D0 == DateInput_set_on_change(D, "noop")
      R1 == DateInput_set_min(D0, min_, today, e[1])
      R2 == DateInput_set_max(R1.w, max_, today, e[2])
      R3 == DateInput_set_value(R2.w, value, today, e[3])
  IN  IF R1.err # "" THEN R1
      ELSE IF R2.err # "" THEN R2
      ELSE IF R3.err # "" THEN R3
      ELSE [w |-> DateInput_set_on_change(R3.w, handler), err |-> ""]


(***************************************************************************)
(* Inputs.                                                                 *)
(***************************************************************************)
\* Dates within DateSpan days of either end of the supported window.
DateSpan == 1

SliderBounds == { k * Scale : k \in 0..MaxBound }
\* Values a quarter apart, from below the least bound to above the greatest,
\* and one third, which no native position of a continuous slider stands for.
ValueInputs ==
  { k * (Scale \div 4) : k \in (0 - 1)..(4 * MaxBound + 1) } \cup {Scale \div 3}
TickCounts == {None} \cup { Some(n) : n \in 1..MaxTicks }
TickValues == {None} \cup { Some(t) : t \in 0..(MaxTicks + 1) }
\* Positions the user can move the native control to.
NativePositions(m) ==
  IF m <= MaxTicks THEN 0..m ELSE {0, m \div 3, m}
\* The native control's maximum before set_int_max is first called.
NativeDefaults == {1, 100}
Events(n) == [1..n -> BOOLEAN]

MidDate == (MIN_DATE + MAX_DATE) \div 2
Dates ==
  (MIN_DATE - DateSpan)..(MIN_DATE + DateSpan)
    \cup {MidDate}
    \cup (MAX_DATE - DateSpan)..(MAX_DATE + DateSpan)
Todays == {MidDate}
NoneArg == [kind |-> "None", d |-> 0, t |-> 0]
DateArgs ==
  {NoneArg}
    \cup { DateArg(d) : d \in Dates }
    \cup { [kind |-> "datetime", d |-> d, t |-> 1] : d \in {MidDate, MAX_DATE + 1} }
    \cup { [kind |-> "str", d |-> d, t |-> 0] : d \in {MIN_DATE - 1, MIN_DATE + 1} }
    \cup { [kind |-> "badstr", d |-> 0, t |-> 0], [kind |-> "other", d |-> 0, t |-> 0] }

\* The backend's date picker as created, before DateInput.__init__ runs.
NewDateInputs ==
  { [value |-> MidDate, min |-> a, max |-> b, on_change |-> "noop", calls |-> 0,
     depth |-> 0, log |-> <<>>, crossed |-> FALSE] :
      a \in {MIN_DATE, MidDate}, b \in {MidDate, MAX_DATE} }

\* The widget as an operation finds it: nothing observed yet.
Fresh(W) == [W EXCEPT !.calls = 0, !.log = <<>>]

\* The widget as its constructor returns it: the log records the calls of
\* the operations on the constructed widget, not those of its construction.
Constructed(W) == [W EXCEPT !.log = <<>>]

Done(op, arg, pre, err) == [op |-> op, arg |-> arg, pre |-> pre, err |-> err]

(***************************************************************************)
(* The state machine.  widget says which widget the program has; phase is  *)
(* "new" before the constructor has run, "ready" after it and "failed"     *)
(* when it raised.  last records the latest operation: its name, its       *)
(* argument (None for a constructor that returned), the widget before it  *)
(* and the exception it raised ("" when it returned).                      *)
(***************************************************************************)
Init ==
  /\ widget \in {"Slider", "DateInput"}
  /\ phase = "new"
  /\ slider \in { NewSlider(m) :
                    m \in IF widget = "Slider" THEN NativeDefaults ELSE {1} }
  /\ date_input \in IF widget = "DateInput" THEN NewDateInputs
                    ELSE { [value |-> MidDate, min |-> MIN_DATE, max |-> MAX_DATE,
                            on_change |-> "noop", calls |-> 0,
                            depth |-> 0, log |-> <<>>, crossed |-> FALSE] }
  /\ last = Done("none", None, None, "")

SliderConstruct ==
  /\ widget = "Slider" /\ phase = "new"
  /\ \E min_ \in SliderBounds, max_ \in SliderBounds, tc \in TickCounts,
        value \in {None} \cup { Some(v) : v \in ValueInputs },
        clip \in BOOLEAN, e \in Events(5) :
       /\ IF tick_count_rejected(tc)
          THEN /\ phase' = "failed"
               /\ slider' = Slider_set_max(
                              Slider_set_min(Slider_set_on_change(slider, "noop"),
                                             Some(min_), e[1]),
                              Some(max_), e[2])
               /\ last' = Done("init", <<min_, max_, tc, value>>, slider, "ValueError")
          ELSE /\ phase' = "ready"
               /\ slider' = Constructed(
                              Slider_init(slider, min_, max_, tc, value, "user", clip, e))
               /\ last' = Done("init", None, slider, "")
  /\ UNCHANGED <<widget, date_input>>

SliderSetValue ==
  /\ widget = "Slider" /\ phase = "ready"
  /\ \E v \in ValueInputs, ev \in BOOLEAN :
       /\ slider' = Slider_set_value(Fresh(slider), v, ev)
       /\ last' = Done("value", v, Fresh(slider), "")
  /\ UNCHANGED <<widget, phase, date_input>>

SliderSetMin ==
  /\ widget = "Slider" /\ phase = "ready"
  /\ \E x \in {None} \cup { Some(b) : b \in SliderBounds }, ev \in BOOLEAN :
       /\ slider' = Slider_set_min(Fresh(slider), x, ev)
       /\ last' = Done("min", x, Fresh(slider),
                       IF CanFloat(x) THEN "" ELSE "TypeError")
  /\ UNCHANGED <<widget, phase, date_input>>

SliderSetMax ==
  /\ widget = "Slider" /\ phase = "ready"
  /\ \E x \in {None} \cup { Some(b) : b \in SliderBounds }, ev \in BOOLEAN :
       /\ slider' = Slider_set_max(Fresh(slider), x, ev)
       /\ last' = Done("max", x, Fresh(slider),
                       IF CanFloat(x) THEN "" ELSE "TypeError")
  /\ UNCHANGED <<widget, phase, date_input>>

SliderSetTickCount ==
  /\ widget = "Slider" /\ phase = "ready"
  /\ \E tc \in TickCounts :
       \E clip \in IF tick_count_rejected(tc) THEN {FALSE} ELSE BOOLEAN,
          e \in IF tick_count_rejected(tc) THEN {[i \in 1..2 |-> FALSE]}
                ELSE Events(2) :
         LET R == Slider_tick_count(Fresh(slider), tc, clip, e[1], e[2])
         IN  /\ slider' = R.w
             /\ last' = Done("tick_count", tc, Fresh(slider), R.err)
  /\ UNCHANGED <<widget, phase, date_input>>

SliderSetTickValue ==
  /\ widget = "Slider" /\ phase = "ready"
  /\ \E t \in TickValues :
       IF tick_value_rejected(Fresh(slider), t)
       THEN /\ slider' = Fresh(slider)
            /\ last' = Done("tick_value", t, Fresh(slider), "ValueError")
       ELSE \E ev \in BOOLEAN :
              /\ slider' = Slider_set_tick_value(Fresh(slider), t, ev)
              /\ last' = Done("tick_value", t, Fresh(slider), "")
  /\ UNCHANGED <<widget, phase, date_input>>

\* The user moves the native control to position p, and the backend calls
\* IntSliderImpl.on_change.
SliderNativeChange ==
  /\ widget = "Slider" /\ phase = "ready"
  /\ \E p \in NativePositions(slider.int_max) :
       /\ slider' = IntSliderImpl_on_change([Fresh(slider) EXCEPT !.int_value = p])
       /\ last' = Done("native", p, Fresh(slider), "")
  /\ UNCHANGED <<widget, phase, date_input>>

DateConstruct ==
  /\ widget = "DateInput" /\ phase = "new"
  /\ \E value \in DateArgs, min_ \in DateArgs, max_ \in DateArgs,
        today \in Todays, e \in Events(3) :
       LET R == DateInput_init(date_input, value, min_, max_, "user", today, e)
       IN  /\ phase' = IF R.err = "" THEN "ready" ELSE "failed"
           /\ date_input' = Constructed(R.w)
           /\ last' = Done("init", IF R.err = "" THEN None ELSE <<value, min_, max_>>,
                           date_input, R.err)
  /\ UNCHANGED <<widget, slider>>

DateSetValue ==
  /\ widget = "DateInput" /\ phase = "ready"
  /\ \E x \in DateArgs, today \in Todays, ev \in BOOLEAN :
       LET R == DateInput_set_value(Fresh(date_input), x, today, ev)
       IN  /\ date_input' = R.w
           /\ last' = Done("value", x, Fresh(date_input), R.err)
  /\ UNCHANGED <<widget, phase, slider>>

DateSetMin ==
  /\ widget = "DateInput" /\ phase = "ready"
  /\ \E x \in DateArgs, today \in Todays, ev \in BOOLEAN :
       LET R == DateInput_set_min(Fresh(date_input), x, today, ev)
       IN  /\ date_input' = R.w
           /\ last' = Done("min", x, Fresh(date_input), R.err)
  /\ UNCHANGED <<widget, phase, slider>>

DateSetMax ==
  /\ widget = "DateInput" /\ phase = "ready"
  /\ \E x \in DateArgs, today \in Todays, ev \in BOOLEAN :
       LET R == DateInput_set_max(Fresh(date_input), x, today, ev)
       IN  /\ date_input' = R.w
           /\ last' = Done("max", x, Fresh(date_input), R.err)
  /\ UNCHANGED <<widget, phase, slider>>

Next ==
  \/ SliderConstruct
  \/ SliderSetValue
  \/ SliderSetMin
  \/ SliderSetMax
  \/ SliderSetTickCount
  \/ SliderSetTickValue
  \/ SliderNativeChange
  \/ DateConstruct
  \/ DateSetValue
  \/ DateSetMin
  \/ DateSetMax

Spec == Init /\ [][Next]_vars


(***************************************************************************)
(* Properties.                                                             *)
(***************************************************************************)
SliderReady == widget = "Slider" /\ phase = "ready"
DateReady == widget = "DateInput" /\ phase = "ready"
SliderSetters == {"value", "min", "max", "tick_count", "tick_value"}
Clip(v, lo, hi) == IF v < lo THEN lo ELSE IF v > hi THEN hi ELSE v
Abs(x) == IF x < 0 THEN 0 - x ELSE x

\* C1: once constructed, and after every completed operation (setters and
\* native change callbacks), the Slider has min <= value <= max.
C1_SliderInRange ==
  SliderReady => slider.min <= slider.value /\ slider.value <= slider.max

\* A set min has raised max to the new min and pulled the value up with it.
C1_Witness ==
  /\ SliderReady /\ last.op = "min" /\ last.err = ""
  /\ last.pre.max < slider.min
  /\ last.pre.value < slider.value

\* C2: once constructed, and after every completed set value / set min /
\* set max, whether it returned or raised, the DateInput has
\* min <= value <= max.
C2_DateInRange ==
  DateReady =>
    date_input.min <= date_input.value /\ date_input.value <= date_input.max

\* A set max below the old min and the old value has pulled both down.
C2_Witness ==
  /\ DateReady /\ last.op = "max" /\ last.err = ""
  /\ date_input.max < last.pre.min
  /\ date_input.value < last.pre.value

\* C3: every call of a Slider setter runs the user's on_change handler
\* exactly once if the value read after the call differs from the value
\* read before it, and not at all if they are equal.
C3_OncePerChange ==
  (SliderReady /\ last.op \in SliderSetters) =>
    slider.calls = IF slider.value # last.pre.value THEN 1 ELSE 0

\* C4: constructing a Slider or a DateInput never runs the user's on_change
\* handler, and the user's handler is the installed one once construction
\* has returned.
C4_ConstructionIsSilent ==
  last.op = "init" =>
    /\ widget = "Slider" =>
         /\ slider.calls = 0
         /\ phase = "ready" => slider.on_change = "user"
    /\ widget = "DateInput" =>
         /\ date_input.calls = 0
         /\ phase = "ready" => date_input.on_change = "user"

\* A Slider has been constructed with a value other than the backend's
\* initial one.
C4_Witness ==
  /\ SliderReady /\ last.op = "init"
  /\ slider.value # last.pre.value
  /\ slider.on_change = "user"

\* The date a DateInput min (max) setter argument stands for.
BoundDate(x, default) == IF x.kind = "None" THEN default ELSE x.d

\* C5: after a successful set min(m), min = m and max is the greater of the
\* old max and m; after a successful set max(m), max = m and min is the
\* lesser of the old min and m.  For the Slider and for the DateInput.
C5_LastBoundWins ==
  /\ (SliderReady /\ last.op = "min" /\ last.err = "") =>
       /\ slider.min = last.arg[1]
       /\ slider.max = Max2(last.pre.max, last.arg[1])
  /\ (SliderReady /\ last.op = "max" /\ last.err = "") =>
       /\ slider.max = last.arg[1]
       /\ slider.min = Min2(last.pre.min, last.arg[1])
  /\ (DateReady /\ last.op = "min" /\ last.err = "") =>
       /\ date_input.min = BoundDate(last.arg, MIN_DATE)
       /\ date_input.max = Max2(last.pre.max, BoundDate(last.arg, MIN_DATE))
  /\ (DateReady /\ last.op = "max" /\ last.err = "") =>
       /\ date_input.max = BoundDate(last.arg, MAX_DATE)
       /\ date_input.min = Min2(last.pre.min, BoundDate(last.arg, MAX_DATE))

\* A Slider min has been set above the max of the moment.
C5_Witness ==
  /\ SliderReady /\ last.op = "min" /\ last.err = ""
  /\ last.arg[1] > last.pre.max


\* C6: DateInput set value(d), for any date d, also one outside the
\* supported window, does not raise; it leaves value = min if d < min,
\* value = max if d > max and value = d otherwise, and min and max as they
\* were.
C6_DateValueClips ==
  (DateReady /\ last.op = "value" /\ last.arg.kind = "date") =>
    /\ last.err = ""
    /\ date_input.value = Clip(last.arg.d, last.pre.min, last.pre.max)
    /\ date_input.min = last.pre.min
    /\ date_input.max = last.pre.max

\* A date after the supported window has been assigned and clipped to max.
C6_Witness ==
  /\ DateReady /\ last.op = "value" /\ last.arg.kind = "date"
  /\ last.arg.d > MAX_DATE
  /\ date_input.value = last.pre.max
  /\ date_input.value # last.pre.value

OutsideWindow(x) ==
  /\ x.kind \in {"date", "datetime", "str"}
  /\ (x.d < MIN_DATE \/ x.d > MAX_DATE)

\* C7: DateInput set min(m) or set max(m) with m outside the supported
\* window raises a range error and leaves min, max and value as they were.
C7_DateBoundRejected ==
  (DateReady /\ last.op \in {"min", "max"} /\ OutsideWindow(last.arg)) =>
    /\ last.err = "ValueError"
    /\ date_input = last.pre

\* A min after the supported window has been refused.
C7_Witness ==
  /\ DateReady /\ last.op = "min"
  /\ last.arg.kind = "date" /\ last.arg.d > MAX_DATE
  /\ last.err = "ValueError"

C11_TickCountRejected ==
  (SliderReady /\ last.op = "tick_count" /\ last.arg # None /\ last.arg[1] < 2) =>
    /\ last.err = "ValueError"
    /\ slider = last.pre
    /\ slider.calls = 0

\* A tick_count of 1 has been refused on a slider that has the user's
\* handler installed.
C11_Witness ==
  /\ SliderReady /\ last.op = "tick_count" /\ last.arg = Some(1)
  /\ last.err = "ValueError"
  /\ slider.on_change = "user"

\* C12: after any call of Slider set value / set min / set max /
\* set tick_count, whether it returned or raised, the installed on_change
\* handler is the one that was installed before the call.
C12_HandlerRestored ==
  (SliderReady /\ last.op \in {"value", "min", "max", "tick_count"}) =>
    slider.on_change = last.pre.on_change

\* C15: Slider set value(v) with v outside [min, max] raises ValueError and
\* stores nothing.
C15_OutOfRangeValueRaises ==
  (SliderReady /\ last.op = "value"
     /\ (last.arg < last.pre.min \/ last.arg > last.pre.max)) =>
    /\ last.err = "ValueError"
    /\ slider = last.pre

\* C18: a native change callback sets the value to
\* min + native_position / native_max * (max - min) and then runs the
\* user's on_change handler exactly once; min, max and tick_count are as
\* before, and on a discrete slider the new value is a tick.
C18_NativeChange ==
  (SliderReady /\ last.op = "native") =>
    LET P == last.pre
        n == IntSliderImpl_get_tick_count(P)
    IN  /\ slider.value * P.int_max =
             P.min * P.int_max + last.arg * (P.max - P.min)
        /\ slider.calls = 1
        /\ slider.min = P.min /\ slider.max = P.max
        /\ IntSliderImpl_get_tick_count(slider) = n
        /\ tick_step(slider) # None =>
             \E k \in 0..(n[1] - 1) :
               slider.value = slider.min + k * tick_step(slider)[1]

\* C20: once constructed, and after every set value / set min / set max,
\* the value, min and max of a DateInput all lie in the supported window
\* [MIN_DATE, MAX_DATE].
C20_DateInWindow ==
  DateReady =>
    \A d \in {date_input.value, date_input.min, date_input.max} :
      MIN_DATE <= d /\ d <= MAX_DATE

\* A date after the window has been assigned while max was the end of the
\* window, and the value is the end of the window.
C20_Witness ==
  /\ DateReady /\ last.op = "value" /\ last.err = ""
  /\ last.arg.kind \in {"date", "datetime"} /\ last.arg.d > MAX_DATE
  /\ date_input.max = MAX_DATE
  /\ date_input.value = MAX_DATE


\* The proportional mapping of the logical value onto [0, native_max].
NativePositionOf(S) ==
  IF S.max = S.min THEN 0
  ELSE Round((S.value - S.min) * S.int_max, S.max - S.min)

\* C14, as claimed: after every completed Slider operation and every native
\* change callback the native integer position is
\* round((value - min) / (max - min) * native_max), or 0 when max = min.
C14_Original ==
  SliderReady => slider.int_value = NativePositionOf(slider)

\* C14, amended: the native integer position is
\* round((value - min) / (max - min) * native_max) after every completed
\* Slider operation and native change callback on a slider with max # min;
\* on a slider with max = min it is 0 after every setter that reached the
\* backend, and after a native change callback it is the position the
\* control was moved to, the value being min.
C14_NativePosition ==
  SliderReady =>
    /\ slider.max # slider.min => slider.int_value = NativePositionOf(slider)
    /\ (slider.max = slider.min /\ last.op = "native") =>
         slider.int_value = last.arg /\ slider.value = slider.min
    /\ (slider.max = slider.min /\ last.op \in {"init", "value", "min", "max", "tick_count"}
          /\ last.err = "") =>
         slider.int_value = 0

\* A set max on a discrete slider has moved the ticks: the value is as it
\* was and the native position is a new one.
C14_Witness ==
  /\ SliderReady /\ last.op = "max" /\ last.err = ""
  /\ slider.discrete /\ slider.max # slider.min
  /\ slider.value = last.pre.value
  /\ slider.int_value # last.pre.int_value
  /\ slider.int_value = NativePositionOf(slider)


\* slider S shows, of its n ticks, one that is nearest to the value prev.
OnNearestTick(S, n, prev) ==
  LET span == S.max - S.min
  IN  /\ \E k \in 0..(n - 1) : S.value * (n - 1) = S.min * (n - 1) + k * span
      /\ \A j \in 0..(n - 1) :
           Abs(S.value - prev) * (n - 1)
             <= Abs(S.min * (n - 1) + j * span - prev * (n - 1))

\* What C13 says of one accepted set tick_count(tc) taking slider P to S.
TickCountStep(P, tc, S) ==
  /\ S.min = P.min /\ S.max = P.max
  /\ IntSliderImpl_get_tick_count(S) = tc
  /\ IF tc = None
     THEN ~S.discrete /\ tick_step(S) = None /\ S.value = P.value
     ELSE OnNearestTick(S, tc[1], P.value)

\* C13: an accepted Slider set tick_count leaves min and max as they were;
\* set tick_count(None) leaves the slider continuous, with tick_count and
\* tick_step None and the value unchanged, and set tick_count(n) leaves the
\* value on the tick nearest to the previous value.  So it is for the last
\* operation and, from every state, for the sequence None, n, None on a
\* backend that always or never fires its change event.
C13_TickCountSwitch ==
  /\ (SliderReady /\ last.op = "tick_count" /\ last.err = "") =>
       TickCountStep(last.pre, last.arg, slider)
  /\ SliderReady =>
       \A n \in 2..MaxTicks, clip \in BOOLEAN, ev \in BOOLEAN :
         LET S0 == Fresh(slider)
             S1 == Slider_tick_count(S0, None, clip, ev, ev).w
             S2 == Slider_tick_count(S1, Some(n), clip, ev, ev).w
             S3 == Slider_tick_count(S2, None, clip, ev, ev).w
         IN  /\ TickCountStep(S0, None, S1)
             /\ TickCountStep(S1, Some(n), S2)
             /\ TickCountStep(S2, None, S3)

\* A discrete slider standing on an inner tick has been made continuous,
\* the backend having fired its change event on the way, and the value is
\* as it was.
C13_Witness ==
  /\ SliderReady /\ last.op = "tick_count" /\ last.arg = None /\ last.err = ""
  /\ last.pre.discrete
  /\ last.pre.min < last.pre.value /\ last.pre.value < last.pre.max
  /\ slider.value = last.pre.value
  /\ Len(slider.log) > 0


\* C16: the user's on_change handler never runs while a programmatic-change
\* scope of the Slider is open; an operation runs it at most once, with no
\* scope open, and it then sees the min, value and max the operation ends
\* with, min <= value <= max.
C16_HandlerOutsideScope ==
  (SliderReady /\ last.op # "init") =>
    /\ slider.depth = 0
    /\ slider.calls <= 1
    /\ \A i \in 1..Len(slider.log) :
         slider.log[i][1] = "user" =>
           /\ slider.log[i] =
                <<"user", 0, slider.min, slider.value, slider.max>>
           /\ slider.min <= slider.value /\ slider.value <= slider.max

\* A set tick_count has changed the value and run the user's handler once,
\* after the backend fired its change event inside the inner scope.
C16_Witness ==
  /\ SliderReady /\ last.op = "tick_count" /\ last.err = ""
  /\ last.pre.on_change = "user"
  /\ slider.calls = 1
  /\ \E i \in 1..Len(slider.log) :
       slider.log[i][1] = "noop" /\ slider.log[i][2] = 2
  /\ slider.log[Len(slider.log)][1] = "user"


\* C17: IntSliderImpl.get_value after set_value(v) is v, whether or not the
\* backend fires its change event inside set_int_value; so a continuous
\* Slider holds the clipped argument of set value exactly, and only a
\* native change callback leaves min + native_position / native_max * span.
C17_ValueCachedVerbatim ==
  SliderReady =>
    /\ \A v \in ValueInputs, ev \in BOOLEAN :
         (slider.min <= v /\ v <= slider.max) =>
           IntSliderImpl_get_value(IntSliderImpl_set_value(slider, v, ev)) = v
    /\ (last.op = "value" /\ ~slider.discrete) =>
         slider.value = Clip(last.arg, slider.min, slider.max)
    /\ last.op = "native" =>
         slider.value * slider.int_max =
           slider.min * slider.int_max
             + slider.int_value * (slider.max - slider.min)

\* A continuous slider has been given a value that no native position
\* stands for; the backend fired its change event inside the call, which
\* showed the quantized value, and the slider holds the value given.
C17_Witness ==
  /\ SliderReady /\ last.op = "value" /\ ~slider.discrete
  /\ slider.value = last.arg
  /\ slider.value * slider.int_max #
       slider.min * slider.int_max
         + slider.int_value * (slider.max - slider.min)
  /\ \E i \in 1..Len(slider.log) :
       /\ slider.log[i][1] = "noop" /\ slider.log[i][2] = 1
       /\ slider.log[i][4] # slider.value


\* C19: no backend call of a Slider or DateInput min or max setter leaves
\* the backend with min > max, in the setter's intermediate states as at
\* its end.
C19_BackendBoundsOrdered ==
  /\ widget = "Slider" => ~slider.crossed /\ slider.min <= slider.max
  /\ widget = "DateInput" =>
       ~date_input.crossed /\ date_input.min <= date_input.max

\* A DateInput min has been set after the max of the moment, which went up
\* to it.
C19_Witness ==
  /\ DateReady /\ last.op = "min" /\ last.err = ""
  /\ BoundDate(last.arg, MIN_DATE) > last.pre.max
  /\ date_input.max = date_input.min


\* C21: after Slider set value(v), a second set value(v) leaves the value,
\* min, max, tick_count and native position as the first left them and does
\* not run on_change; so does assigning the value the first call left.
C21_SetValueIdempotent ==
  (SliderReady /\ last.op = "value") =>
    \A v \in {last.arg, slider.value}, ev \in BOOLEAN :
      LET S2 == Slider_set_value(Fresh(slider), v, ev)
      IN  /\ S2.value = slider.value
          /\ S2.min = slider.min /\ S2.max = slider.max
          /\ IntSliderImpl_get_tick_count(S2) = IntSliderImpl_get_tick_count(slider)
          /\ S2.int_value = slider.int_value
          /\ S2.on_change = slider.on_change
          /\ S2.calls = 0
          /\ \A i \in 1..Len(S2.log) : S2.log[i][1] = "noop"

\* A value off the ticks of a discrete slider has been assigned: it was
\* rounded, the user's handler ran once, and a second assignment on a
\* backend that fires its change event reaches only the muted handler.
C21_Witness ==
  /\ SliderReady /\ last.op = "value"
  /\ slider.discrete /\ slider.max # slider.min
  /\ slider.value # last.arg
  /\ slider.value # last.pre.value
  /\ slider.calls = 1
  /\ Len(Slider_set_value(Fresh(slider), last.arg, TRUE).log) = 1

====
